---- MODULE Spec2Model ----
(***************************************************************************)
(* BizWiz 2.5: the on-demand data-loading orchestrator of the dashboard    *)
(* (dynamic_dashboard_fixed.py, and the minimal dashboard emitted by       *)
(* fix_attribute_errors.py) and the city configuration store               *)
(* (city_config.py).                                                       *)
(*                                                                         *)
(* Three specifications share the variables:                               *)
(*   Spec       the fixed dashboard: presentation thread + load workers    *)
(*   SpecMin    the minimal dashboard of fix_attribute_errors.py           *)
(*   SpecStore  EnhancedCityConfigManager: load / generate / save /        *)
(*              set_current_city against a backing file                    *)
(***************************************************************************)
EXTENDS Integers, Sequences, FiniteSets, TLC

\* ------------------------------------------------------------------ bounds
\* load requests made over a run
MaxRequests == 3
\* worker threads alive at the same time
MaxInFlight == 2

\* hash() of a str lies in -MaxHash..MaxHash
MaxHash == 2
\* the seed space of the generator (2**32 in the program)
SeedModulus == 2

\* ------------------------------------------------------- program constants
SyntheticRows == 100
MinimalRows == 25

\* --------------------------------------------------------------- universes
Cities == {"chicago_il", "grand_forks_nd"}
WorkerIds == 1..MaxInFlight
\* number of rows of a successful, non-empty collection
RealRows == 7

VARIABLES
    \* app_state of the dashboard process
    current_city_data, loading_progress, last_loaded_city, loading_in_progress,
    \* module-level flag set at import time
    DATA_LOADER_AVAILABLE,
    \* the presentation thread inside the load-request callback: its position
    \* and its city_id argument; nreq counts the requests made so far
    tpc, req_city, nreq,
    \* the live worker threads
    workers,
    \* how the most recently finished worker ended ("none": no worker finished)
    last_finished

dashVars == <<current_city_data, loading_progress, last_loaded_city,
              loading_in_progress, DATA_LOADER_AVAILABLE, tpc, req_city, nreq,
              workers, last_finished>>

\* ---- city_config.py: one EnhancedCityConfigManager and its backing file
VARIABLES
    \* the backing file usa_city_configs.yaml
    file,
    \* the raw city list the generation collaborator supplies
    cities_df,
    \* the manager object: "none" (not constructed, or its constructor
    \* raised) or "ready"; its configs dict (insertion ordered) and
    \* current_city
    mgr, configs, current_city,
    \* how the last store operation returned to its caller
    ret

\* ---- city_config.py: _create_city_config_from_data applied to raw rows
VARIABLES
    \* the raw rows handed to the generator, and per row what the call gave:
    \* still pending, raised, or the CityConfiguration it returned
    city_rows, city_configs

genVars == <<city_rows, city_configs>>

\* ---- city_config.py: the query methods of the manager
VARIABLES
    \* the arguments of the last query call and the list it returned
    query, found

queryVars == <<query, found>>

\* ---- the synthetic fallback and the random generator it draws from
VARIABLES
    \* which dashboard runs: "fixed" (create_synthetic_city_data) or
    \* "minimal" (create_minimal_fallback)
    variant,
    \* hash(city_id) of each city id in this process
    str_hash,
    \* the module-level generator behind np.random.*: the seed it was last
    \* given and how many arrays were drawn since
    np_random,
    \* the threads inside the fallback function: position, city, the columns
    \* drawn so far and the value returned
    calls

fbVars == <<variant, str_hash, np_random, calls>>

storeVars == <<file, cities_df, mgr, configs, current_city, ret, genVars,
               queryVars, fbVars>>

vars == <<dashVars, storeVars>>

\* ------------------------------------------------------------ value shapes
\* the arguments of a query call when the last operation was not a query
NoArgs == [none |-> TRUE]

None == "None"
NoData == [kind |-> "none"]
NoProgress == [kind |-> "none"]

\* threads that may be inside the fallback function at the same time
Callers == {1, 2}
\* the generator before any np.random.seed call of this program
Unseeded == [seed |-> -1, pos |-> 0]
NoCall == [pc |-> "idle", city |-> None, cols |-> <<>>, result |-> NoData]

\* no fallback call was made
FallbackIdle ==
    /\ variant = "fixed"
    /\ str_hash = [c \in Cities |-> 0]
    /\ np_random = Unseeded
    /\ calls = [c \in Callers |-> NoCall]
NoWorker == [pc |-> "unused", city |-> None, display |-> None,
             outcome |-> "none", city_data |-> NoData]

\* display name looked up for a city id (city_manager.get_config(..).display_name)
DisplayName(city) ==
    CASE city = "chicago_il" -> "Chicago, IL"
      [] city = "grand_forks_nd" -> "Grand Forks, ND"
      [] OTHER -> city

\* a result returned by load_city_data_on_demand with n rows in df_filtered
CollectedData(city, n) ==
    [kind |-> "data", city |-> city, display |-> DisplayName(city),
     rows |-> n, metrics |-> {}]

\* create_synthetic_city_data(city_id, display_name): n_locations rows,
\* metrics carry synthetic=True, MockConfig keeps the ids it was given
create_synthetic_city_data(city, display) ==
    [kind |-> "data", city |-> city, display |-> display,
     rows |-> SyntheticRows, metrics |-> {"synthetic"}]

\* what a progress object passed to progress_callback may look like:
\* a well-formed update, or an object whose attributes cannot be read
ProgressObjects ==
    {[ok |-> TRUE, percent |-> 10, step |-> "Collecting"],
     [ok |-> FALSE, percent |-> 0, step |-> ""]}

\* (variant: the callback updates the published record field by field; the
\* record as it stands after the first field was written)
ProgressRecord_InPlace(p) ==
    IF loading_progress.kind = "progress"
      THEN [loading_progress EXCEPT !.percent = IF p.ok THEN p.percent ELSE 50]
      ELSE IF p.ok
        THEN [kind |-> "progress", percent |-> p.percent, step |-> p.step]
        ELSE [kind |-> "progress", percent |-> 50, step |-> "Processing..."]

\* the record progress_callback publishes for a progress object
ProgressRecord(p) ==
    IF p.ok THEN [kind |-> "progress", percent |-> p.percent, step |-> p.step]
    ELSE [kind |-> "progress", percent |-> 50, step |-> "Processing..."]

\* error_msg = f"Error loading city data: {e}"
ErrorRecord(outcome) ==
    [kind |-> "error",
     error |-> CASE outcome = "invalid" -> "Invalid city data returned"
                 [] outcome = "unavailable" -> "Data loader not available"
                 [] OTHER -> "collection raised"]

\* what the external collection routine may do: return a non-empty table,
\* return a zero-row table, return a falsy value or one without
\* 'df_filtered', or raise
CollectOutcomes == {"rows", "empty", "invalid", "raise"}

Live == {w \in WorkerIds : workers[w].pc # "unused"}
InFlight(w) == workers[w].pc # "unused"
FreeSlot == CHOOSE w \in WorkerIds : workers[w].pc = "unused" /\
                \A v \in WorkerIds : workers[v].pc = "unused" => w <= v

\* -------------------------------------------------------------------- Init
DashInit ==
    /\ current_city_data = NoData
    /\ loading_progress = NoProgress
    /\ last_loaded_city = None
    /\ loading_in_progress = FALSE
    /\ DATA_LOADER_AVAILABLE \in BOOLEAN
    /\ tpc = "idle"
    /\ req_city = None
    /\ nreq = 0
    /\ workers = [w \in WorkerIds |-> NoWorker]
    /\ last_finished = "none"

\* no manager constructed, no backing file
StoreIdle ==
    /\ file = [kind |-> "absent", current_city |-> <<>>, cities |-> <<>>]
    /\ cities_df = <<>>
    /\ mgr = "none"
    /\ configs = <<>>
    /\ current_city = <<>>
    /\ ret = "none"
    /\ city_rows = <<>>
    /\ city_configs = <<>>
    /\ query = NoArgs
    /\ found = <<>>
    /\ FallbackIdle

Init == DashInit /\ StoreIdle

\* ------------------------------------------- trigger_city_loading (fixed)
\* the test "do we need to load this city" of trigger_city_loading
NeedLoad(city, force) ==
    \/ city # last_loaded_city
    \/ force
    \/ current_city_data = NoData

\* threading.Thread(target=..., args=(city_id, .., display_name)).start()
StartWorker(city, entry) ==
    workers' = [workers EXCEPT ![FreeSlot] =
            [pc |-> entry, city |-> city, display |-> DisplayName(city),
             outcome |-> "none", city_data |-> NoData]]

\* a load request: city selected (force = FALSE) or refresh clicked
\* (force = TRUE); the callback up to and including Thread.start()
TriggerCityLoading(city, force) ==
    /\ tpc = "idle"
    /\ nreq < MaxRequests
    /\ nreq' = nreq + 1
    /\ IF ~DATA_LOADER_AVAILABLE
         THEN UNCHANGED <<tpc, req_city, workers>>
         ELSE IF NeedLoad(city, force)
                THEN /\ Cardinality(Live) < MaxInFlight
                     /\ StartWorker(city, "begin")
                     /\ tpc' = "started"
                     /\ req_city' = city
                ELSE UNCHANGED <<tpc, req_city, workers>>
    /\ UNCHANGED storeVars
    /\ UNCHANGED <<current_city_data, loading_progress, last_loaded_city,
                   loading_in_progress, DATA_LOADER_AVAILABLE, last_finished>>

\* app_state['loading_in_progress'] = True  (after the thread was started)
TriggerSetLoading ==
    /\ tpc = "started"
    /\ loading_in_progress' = TRUE
    /\ tpc' = "flagged"
    /\ UNCHANGED storeVars
    /\ UNCHANGED <<current_city_data, loading_progress, last_loaded_city,
                   DATA_LOADER_AVAILABLE, req_city, nreq, workers,
                   last_finished>>

\* app_state['last_loaded_city'] = city_id ; return
TriggerSetLastLoaded ==
    /\ tpc = "flagged"
    /\ last_loaded_city' = req_city
    /\ tpc' = "idle"
    /\ req_city' = None
    /\ UNCHANGED storeVars
    /\ UNCHANGED <<current_city_data, loading_progress, loading_in_progress,
                   DATA_LOADER_AVAILABLE, nreq, workers, last_finished>>

\* ------------------------------------ load_city_data_background_safe (fixed)
SetWorker(w, r) == workers' = [workers EXCEPT ![w] = r]

\* the locals of a worker that has written its result are dead
AfterStore(w, pc) == [NoWorker EXCEPT !.pc = pc, !.outcome = workers[w].outcome]

\* entry: raise ImportError when the loader is unavailable
WorkerBegin(w) ==
    /\ workers[w].pc = "begin"
    /\ SetWorker(w, [workers[w] EXCEPT
            !.pc = IF DATA_LOADER_AVAILABLE THEN "collect" ELSE "except",
            !.outcome = IF DATA_LOADER_AVAILABLE THEN @ ELSE "unavailable"])
    /\ UNCHANGED storeVars
    /\ UNCHANGED <<current_city_data, loading_progress, last_loaded_city,
                   loading_in_progress, DATA_LOADER_AVAILABLE, tpc, req_city,
                   nreq, last_finished>>

\* progress_callback(progress), called by the collection routine
WorkerProgress(w, p) ==
    /\ workers[w].pc = "collect"
    /\ loading_progress' = ProgressRecord(p)
    /\ UNCHANGED workers
    /\ UNCHANGED storeVars
    /\ UNCHANGED <<current_city_data, last_loaded_city, loading_in_progress,
                   DATA_LOADER_AVAILABLE, tpc, req_city, nreq, last_finished>>

\* the value kept in city_data after validation: the collected table, or
\* for a zero-row table the synthetic one
ValidatedResult(city, display, outcome) ==
    IF outcome = "rows" THEN CollectedData(city, RealRows)
    ELSE create_synthetic_city_data(city, display)

\* load_city_data_on_demand returns or raises; the result is validated
WorkerCollectReturn(w, outcome) ==
    /\ workers[w].pc = "collect"
    /\ IF outcome \in {"rows", "empty"}
         THEN SetWorker(w, [workers[w] EXCEPT !.pc = "store",
                    !.outcome = outcome,
                    !.city_data = ValidatedResult(workers[w].city,
                                        workers[w].display, outcome)])
         ELSE SetWorker(w, [workers[w] EXCEPT !.pc = "except",
                    !.outcome = outcome])
    /\ UNCHANGED storeVars
    /\ UNCHANGED <<current_city_data, loading_progress, last_loaded_city,
                   loading_in_progress, DATA_LOADER_AVAILABLE, tpc, req_city,
                   nreq, last_finished>>

\* (variant: a result is adopted only when its city is still the one the
\* orchestrator regards as loaded)
StoredData_Tagged(w) ==
    IF workers[w].city = last_loaded_city THEN workers[w].city_data
    ELSE current_city_data

\* what the worker assigns to the data slot: its own result, untagged
StoredData(w) == workers[w].city_data

\* app_state['current_city_data'] = city_data
WorkerStore(w) ==
    /\ workers[w].pc = "store"
    /\ current_city_data' = StoredData(w)
    /\ SetWorker(w, AfterStore(w, "clear_flag"))
    /\ UNCHANGED storeVars
    /\ UNCHANGED <<loading_progress, last_loaded_city, loading_in_progress,
                   DATA_LOADER_AVAILABLE, tpc, req_city, nreq, last_finished>>

\* app_state['loading_in_progress'] = False
WorkerClearFlag(w) ==
    /\ workers[w].pc = "clear_flag"
    /\ loading_in_progress' = FALSE
    /\ SetWorker(w, [workers[w] EXCEPT !.pc = "clear_progress"])
    /\ UNCHANGED storeVars
    /\ UNCHANGED <<current_city_data, loading_progress, last_loaded_city,
                   DATA_LOADER_AVAILABLE, tpc, req_city, nreq, last_finished>>

\* (variant: the success path leaves a "done" record behind)
ClearedProgress_Lingering ==
    [kind |-> "progress", percent |-> 100, step |-> "Done"]

\* the status record the success path leaves behind
ClearedProgress == NoProgress

\* app_state['loading_progress'] = None ; the thread ends
WorkerClearProgress(w) ==
    /\ workers[w].pc = "clear_progress"
    /\ loading_progress' = ClearedProgress
    /\ last_finished' = workers[w].outcome
    /\ SetWorker(w, NoWorker)
    /\ UNCHANGED storeVars
    /\ UNCHANGED <<current_city_data, last_loaded_city, loading_in_progress,
                   DATA_LOADER_AVAILABLE, tpc, req_city, nreq>>

\* (variant: the except branch gives up without building a dataset)
FallbackData_GivesUp(city, display) == NoData

\* the data the except branch builds
FallbackData(city, display) == create_synthetic_city_data(city, display)

\* except Exception: city_data = create_synthetic_city_data(..); store it
WorkerFallback(w) ==
    /\ workers[w].pc = "except"
    /\ current_city_data' = FallbackData(workers[w].city, workers[w].display)
    /\ SetWorker(w, AfterStore(w, "except_flag"))
    /\ UNCHANGED storeVars
    /\ UNCHANGED <<loading_progress, last_loaded_city, loading_in_progress,
                   DATA_LOADER_AVAILABLE, tpc, req_city, nreq, last_finished>>

\* app_state['loading_in_progress'] = False
WorkerExceptFlag(w) ==
    /\ workers[w].pc = "except_flag"
    /\ loading_in_progress' = FALSE
    /\ SetWorker(w, [workers[w] EXCEPT !.pc = "except_progress"])
    /\ UNCHANGED storeVars
    /\ UNCHANGED <<current_city_data, loading_progress, last_loaded_city,
                   DATA_LOADER_AVAILABLE, tpc, req_city, nreq, last_finished>>

\* app_state['loading_progress'] = {'error': error_msg} ; the thread ends
WorkerExceptProgress(w) ==
    /\ workers[w].pc = "except_progress"
    /\ loading_progress' = ErrorRecord(workers[w].outcome)
    /\ last_finished' = workers[w].outcome
    /\ SetWorker(w, NoWorker)
    /\ UNCHANGED storeVars
    /\ UNCHANGED <<current_city_data, last_loaded_city, loading_in_progress,
                   DATA_LOADER_AVAILABLE, tpc, req_city, nreq>>

\* ------------------------------------------------------ update_progress_safe
\* (bar value, bar label, interval disabled, main content shown)
PollOutput ==
    IF ~loading_in_progress
      THEN [bar |-> 0, label |-> "", disabled |-> TRUE,
            main |-> (current_city_data # NoData)]
    ELSE IF loading_progress = NoProgress
      THEN [bar |-> 0, label |-> "Initializing...", disabled |-> FALSE,
            main |-> FALSE]
    ELSE IF loading_progress.kind = "error"
      THEN [bar |-> 100, label |-> "Error occurred", disabled |-> TRUE,
            main |-> FALSE]
    ELSE [bar |-> loading_progress.percent, label |-> "percent",
          disabled |-> FALSE, main |-> FALSE]

\* -------------------------------------------------------------------- Next
Next ==
    \/ \E city \in Cities, force \in BOOLEAN : TriggerCityLoading(city, force)
    \/ TriggerSetLoading
    \/ TriggerSetLastLoaded
    \/ \E w \in WorkerIds : WorkerBegin(w)
    \/ \E w \in WorkerIds, p \in ProgressObjects : WorkerProgress(w, p)
    \/ \E w \in WorkerIds, o \in CollectOutcomes : WorkerCollectReturn(w, o)
    \/ \E w \in WorkerIds : WorkerStore(w)
    \/ \E w \in WorkerIds : WorkerClearFlag(w)
    \/ \E w \in WorkerIds : WorkerClearProgress(w)
    \/ \E w \in WorkerIds : WorkerFallback(w)
    \/ \E w \in WorkerIds : WorkerExceptFlag(w)
    \/ \E w \in WorkerIds : WorkerExceptProgress(w)

Spec == Init /\ [][Next]_vars

\* ===================== the minimal dashboard (fix_attribute_errors.py) ====
\* create_minimal_fallback(city_id, display_name): 25 rows, metrics carry
\* 'fallback': True
create_minimal_fallback(city, display) ==
    [kind |-> "data", city |-> city, display |-> display,
     rows |-> MinimalRows, metrics |-> {"fallback"}]

\* handle_city_loading: every click on "Load Data" starts a thread
HandleCityLoading(city) ==
    /\ tpc = "idle"
    /\ nreq < MaxRequests
    /\ nreq' = nreq + 1
    /\ IF ~DATA_LOADER_AVAILABLE
         THEN UNCHANGED workers
         ELSE /\ Cardinality(Live) < MaxInFlight
              /\ StartWorker(city, "m_begin")
    /\ UNCHANGED storeVars
    /\ UNCHANGED <<current_city_data, loading_progress, last_loaded_city,
                   loading_in_progress, DATA_LOADER_AVAILABLE, tpc, req_city,
                   last_finished>>

\* app_state['loading_in_progress'] = True  (first statement of the worker)
MinWorkerBegin(w) ==
    /\ workers[w].pc = "m_begin"
    /\ loading_in_progress' = TRUE
    /\ SetWorker(w, [workers[w] EXCEPT !.pc = "m_collect"])
    /\ UNCHANGED storeVars
    /\ UNCHANGED <<current_city_data, loading_progress, last_loaded_city,
                   DATA_LOADER_AVAILABLE, tpc, req_city, nreq, last_finished>>

\* progress_callback(progress) of the minimal worker
MinWorkerProgress(w, p) ==
    /\ workers[w].pc = "m_collect"
    /\ loading_progress' = ProgressRecord(p)
    /\ UNCHANGED workers
    /\ UNCHANGED storeVars
    /\ UNCHANGED <<current_city_data, last_loaded_city, loading_in_progress,
                   DATA_LOADER_AVAILABLE, tpc, req_city, nreq, last_finished>>

\* the value the minimal worker keeps: whatever was returned, if it is
\* truthy and has 'df_filtered' (the row count is not looked at)
MinValidatedResult(city, outcome) ==
    CollectedData(city, IF outcome = "rows" THEN RealRows ELSE 0)

\* load_city_data_on_demand returns or raises
MinWorkerCollectReturn(w, outcome) ==
    /\ workers[w].pc = "m_collect"
    /\ IF outcome \in {"rows", "empty"}
         THEN SetWorker(w, [workers[w] EXCEPT !.pc = "m_store",
                    !.outcome = outcome,
                    !.city_data = MinValidatedResult(workers[w].city, outcome)])
         ELSE SetWorker(w, [workers[w] EXCEPT !.pc = "m_except",
                    !.outcome = outcome])
    /\ UNCHANGED storeVars
    /\ UNCHANGED <<current_city_data, loading_progress, last_loaded_city,
                   loading_in_progress, DATA_LOADER_AVAILABLE, tpc, req_city,
                   nreq, last_finished>>

\* app_state['current_city_data'] = city_data
MinWorkerStore(w) ==
    /\ workers[w].pc = "m_store"
    /\ current_city_data' = workers[w].city_data
    /\ SetWorker(w, AfterStore(w, "m_flag"))
    /\ UNCHANGED storeVars
    /\ UNCHANGED <<loading_progress, last_loaded_city, loading_in_progress,
                   DATA_LOADER_AVAILABLE, tpc, req_city, nreq, last_finished>>

\* except: app_state['current_city_data'] = create_minimal_fallback(..)
MinWorkerFallback(w) ==
    /\ workers[w].pc = "m_except"
    /\ current_city_data' =
            create_minimal_fallback(workers[w].city, workers[w].display)
    /\ SetWorker(w, AfterStore(w, "m_flag"))
    /\ UNCHANGED storeVars
    /\ UNCHANGED <<loading_progress, last_loaded_city, loading_in_progress,
                   DATA_LOADER_AVAILABLE, tpc, req_city, nreq, last_finished>>

\* finally: app_state['loading_in_progress'] = False
MinWorkerClearFlag(w) ==
    /\ workers[w].pc = "m_flag"
    /\ loading_in_progress' = FALSE
    /\ SetWorker(w, [workers[w] EXCEPT !.pc = "m_progress"])
    /\ UNCHANGED storeVars
    /\ UNCHANGED <<current_city_data, loading_progress, last_loaded_city,
                   DATA_LOADER_AVAILABLE, tpc, req_city, nreq, last_finished>>

\* finally: app_state['loading_progress'] = None ; the thread ends
MinWorkerClearProgress(w) ==
    /\ workers[w].pc = "m_progress"
    /\ loading_progress' = NoProgress
    /\ last_finished' = workers[w].outcome
    /\ SetWorker(w, NoWorker)
    /\ UNCHANGED storeVars
    /\ UNCHANGED <<current_city_data, last_loaded_city, loading_in_progress,
                   DATA_LOADER_AVAILABLE, tpc, req_city, nreq>>

NextMin ==
    \/ \E city \in Cities : HandleCityLoading(city)
    \/ \E w \in WorkerIds : MinWorkerBegin(w)
    \/ \E w \in WorkerIds, p \in ProgressObjects : MinWorkerProgress(w, p)
    \/ \E w \in WorkerIds, o \in CollectOutcomes : MinWorkerCollectReturn(w, o)
    \/ \E w \in WorkerIds : MinWorkerStore(w)
    \/ \E w \in WorkerIds : MinWorkerFallback(w)
    \/ \E w \in WorkerIds : MinWorkerClearFlag(w)
    \/ \E w \in WorkerIds : MinWorkerClearProgress(w)

SpecMin == Init /\ [][NextMin]_vars

\* =============================== claims about the load orchestrator =======
\* a worker takes the step that leaves position pc
Leaves(w, pc) == workers[w].pc = pc /\ workers'[w].pc # pc
\* the worker writes its result into the data slot in this step
StoresResult(w) ==
    \/ Leaves(w, "store") \/ Leaves(w, "except")
    \/ Leaves(w, "m_store") \/ Leaves(w, "m_except")
\* the worker thread ends in this step
Ends(w) == workers[w].pc # "unused" /\ workers'[w].pc = "unused"

\* C1: at most one load worker is in flight at any time.
C1_AtMostOneWorkerInFlight == Cardinality(Live) <= 1

\* C2: a second request for the same city X, made while the first load of X
\* is still Loading (no prior load, no data yet, force_refresh unset), starts
\* no second worker.
C2_NoSecondWorkerForSameCity ==
    [][\A c \in Cities :
        ( /\ TriggerCityLoading(c, FALSE)
          /\ last_finished = "none"
          /\ current_city_data = NoData
          /\ loading_in_progress
          /\ last_loaded_city = c
          /\ \E w \in WorkerIds : InFlight(w) /\ workers[w].city = c )
        => workers' = workers]_vars

\* C3: after a single load request from Idle, once its worker has finished
\* the loading_in_progress flag is false (and stays so, there being no
\* further request).
C3_IdleOnceWorkerFinished ==
    (nreq = 1 /\ last_finished # "none") => ~loading_in_progress

C5_FallbackOnEveryFailedCollection ==
    [][\A w \in WorkerIds :
        (StoresResult(w) /\ workers[w].outcome # "rows") =>
            current_city_data' \in
                {create_synthetic_city_data(workers[w].city,
                                            DisplayName(workers[w].city)),
                 create_minimal_fallback(workers[w].city,
                                         DisplayName(workers[w].city))}]_vars

\* C6: when collection returned a non-empty result, the worker stores exactly
\* that result, then sets loading_in_progress to false, then makes the
\* progress record absent.
C6_ReadyStoresResultAndClearsStatus ==
    [][\A w \in WorkerIds : workers[w].outcome = "rows" =>
        /\ Leaves(w, "store") =>
              current_city_data' = CollectedData(workers[w].city, RealRows)
        /\ Leaves(w, "clear_flag") => loading_in_progress' = FALSE
        /\ Leaves(w, "clear_progress") =>
              (Ends(w) /\ loading_progress' = NoProgress)]_vars

C6_Witness ==
    /\ last_finished = "rows"
    /\ current_city_data # NoData
    /\ current_city_data.rows = RealRows
    /\ current_city_data.metrics = {}
    /\ ~loading_in_progress
    /\ loading_progress = NoProgress

\* C7: a worker that ends leaves the status region the same way on the
\* Ready and on the Fallback outcome: loading false, no progress record.
C7_SameStatusAfterReadyAndFallback ==
    [][\A w \in WorkerIds :
        /\ (Leaves(w, "clear_flag") \/ Leaves(w, "except_flag"))
              => loading_in_progress' = FALSE
        /\ Ends(w) => loading_progress' = NoProgress]_vars

\* C8: a load request for X starts a worker exactly when force_refresh is
\* set or X is not the city whose result occupies the data slot.
C8_StartsWorkerIffForcedOrOtherCity ==
    [][\A c \in Cities, f \in BOOLEAN :
        (TriggerCityLoading(c, f) /\ DATA_LOADER_AVAILABLE) =>
            ((workers' # workers) <=>
                (f \/ current_city_data = NoData
                   \/ current_city_data.city # c))]_vars

\* C26: the data slot is last-writer-wins with no epoch tag: a worker whose
\* city is no longer the one the orchestrator regards as loaded still has its
\* result adopted as the current city data, so an execution exists in which
\* the superseded request's result for A is current while B is the loaded
\* city.
C26_StaleWriteAdopted ==
    [][\A w \in WorkerIds :
        (StoresResult(w) /\ workers[w].city # last_loaded_city) =>
            /\ current_city_data' # NoData
            /\ current_city_data'.city = workers[w].city]_vars

\* both workers have ended, B was requested last, A's result is current
C26_Witness ==
    /\ Live = {}
    /\ tpc = "idle"
    /\ last_loaded_city = "grand_forks_nd"
    /\ current_city_data # NoData
    /\ current_city_data.city = "chicago_il"
    /\ current_city_data.rows = RealRows

\* C27: every progress record the poller can read was published whole by one
\* callback: its percent and step come from the same progress object (or are
\* both the defaults of the callback's except branch), never from two
\* different updates.
C27_ProgressRecordFromOneUpdate ==
    (loading_progress # NoProgress /\ loading_progress.kind = "progress") =>
        \E p \in ProgressObjects :
            IF p.ok
              THEN /\ loading_progress.percent = p.percent
                   /\ loading_progress.step = p.step
              ELSE /\ loading_progress.percent = 50
                   /\ loading_progress.step = "Processing..."

\* one worker, still collecting, has published the default record; the
\* poller shows its percentage
C27_Witness ==
    /\ nreq = 1
    /\ loading_in_progress
    /\ \E w \in WorkerIds : workers[w].pc = "collect"
    /\ loading_progress # NoProgress
    /\ loading_progress.kind = "progress"
    /\ loading_progress.step = "Processing..."
    /\ PollOutput.bar = 50

\* C28: on Idle -> Loading the status slot carries no record left over from
\* an earlier load: when the flag goes up for a load whose worker is the only
\* one in flight, the slot holds no error record, so the poller does not
\* report an earlier load's error as this load's.
C28_NoLeftoverRecordOnLoading ==
    [][(TriggerSetLoading /\ ~loading_in_progress /\ Cardinality(Live) = 1) =>
        /\ loading_progress'.kind # "error"
        /\ PollOutput'.label # "Error occurred"]_vars

\* ============================ city_config.py: the configuration store ====
\* strings the code takes apart are sequences of one-character strings
UpperCase == <<"A","B","C","D","E","F","G","H","I","J","K","L","M",
               "N","O","P","Q","R","S","T","U","V","W","X","Y","Z">>
LowerCase == <<"a","b","c","d","e","f","g","h","i","j","k","l","m",
               "n","o","p","q","r","s","t","u","v","w","x","y","z">>

\* str.lower()
Lower(c) ==
    IF \E i \in 1..26 : UpperCase[i] = c
      THEN LowerCase[CHOOSE i \in 1..26 : UpperCase[i] = c]
      ELSE c
LowerStr(str) == [i \in 1..Len(str) |-> Lower(str[i])]

\* str.replace(a, b) for one-character a and b, and str.replace(a, '')
ReplaceChar(str, a, b) == [i \in 1..Len(str) |-> IF str[i] = a THEN b ELSE str[i]]
RemoveChar(str, a) == SelectSeq(str, LAMBDA c : c # a)

\* city_id = f"{name.lower().replace(' ','_').replace('-','_').replace('.','')}_{state.lower()}"
CityId_KeepsPeriods(city_name, state_code) ==
    ReplaceChar(ReplaceChar(LowerStr(city_name), " ", "_"), "-", "_")
        \o <<"_">> \o LowerStr(state_code)

CityId(city_name, state_code) ==
    RemoveChar(ReplaceChar(ReplaceChar(LowerStr(city_name), " ", "_"),
                           "-", "_"), ".")
        \o <<"_">> \o LowerStr(state_code)

\* display_name = f"{city_name}, {state_code}"
ConfigDisplayName(city_name, state_code) == city_name \o <<",", " ">> \o state_code

\* degrees are kept in units of 1/10000 degree, factors in hundredths
_calculate_bounds_size_Inclusive(population) ==
    IF population >= 2000000 THEN 3000
    ELSE IF population >= 1000000 THEN 2000
    ELSE IF population >= 500000 THEN 1500
    ELSE IF population >= 200000 THEN 1000
    ELSE IF population >= 100000 THEN 800
    ELSE 500

_calculate_bounds_size(population) ==
    IF population > 2000000 THEN 3000
    ELSE IF population > 1000000 THEN 2000
    ELSE IF population > 500000 THEN 1500
    ELSE IF population > 200000 THEN 1000
    ELSE IF population > 100000 THEN 800
    ELSE 500

\* a Python tuple (lo, hi)
Tuple2(lo, hi) == [type |-> "tuple", v |-> <<lo, hi>>]

\* the same table with every threshold one step too high
_create_demographics_for_population_ShiftedTiers(population) ==
    IF population > 2000000 THEN
        [typical_population_range |-> Tuple2(10000, 50000),
         typical_income_range |-> Tuple2(50000, 120000),
         typical_age_range |-> Tuple2(25, 45),
         population_density_factor |-> 150]
    ELSE IF population > 1000000 THEN
        [typical_population_range |-> Tuple2(5000, 25000),
         typical_income_range |-> Tuple2(45000, 100000),
         typical_age_range |-> Tuple2(25, 50),
         population_density_factor |-> 120]
    ELSE IF population > 500000 THEN
        [typical_population_range |-> Tuple2(3000, 15000),
         typical_income_range |-> Tuple2(40000, 80000),
         typical_age_range |-> Tuple2(25, 55),
         population_density_factor |-> 100]
    ELSE
        [typical_population_range |-> Tuple2(2000, 10000),
         typical_income_range |-> Tuple2(35000, 70000),
         typical_age_range |-> Tuple2(25, 60),
         population_density_factor |-> 80]

_create_demographics_for_population(population) ==
    IF population > 1000000 THEN
        [typical_population_range |-> Tuple2(10000, 50000),
         typical_income_range |-> Tuple2(50000, 120000),
         typical_age_range |-> Tuple2(25, 45),
         population_density_factor |-> 150]
    ELSE IF population > 500000 THEN
        [typical_population_range |-> Tuple2(5000, 25000),
         typical_income_range |-> Tuple2(45000, 100000),
         typical_age_range |-> Tuple2(25, 50),
         population_density_factor |-> 120]
    ELSE IF population > 200000 THEN
        [typical_population_range |-> Tuple2(3000, 15000),
         typical_income_range |-> Tuple2(40000, 80000),
         typical_age_range |-> Tuple2(25, 55),
         population_density_factor |-> 100]
    ELSE
        [typical_population_range |-> Tuple2(2000, 10000),
         typical_income_range |-> Tuple2(35000, 70000),
         typical_age_range |-> Tuple2(25, 60),
         population_density_factor |-> 80]

base_competitors ==
    <<"mcdonalds", "kfc", "taco-bell", "burger-king", "subway", "wendys",
      "popeyes">>

\* the smallest tier keeping the last five base terms instead of the first
_create_competitor_data_for_population_LastFive(population) ==
    IF population > 1000000 THEN
        [primary_competitor |-> "chick-fil-a",
         competitor_search_terms |-> base_competitors \o
                <<"chipotle", "panera", "five-guys", "shake-shack">>,
         market_saturation_factor |-> 95,
         fast_casual_preference_score |-> 90]
    ELSE IF population > 500000 THEN
        [primary_competitor |-> "chick-fil-a",
         competitor_search_terms |-> base_competitors \o <<"chipotle", "panera">>,
         market_saturation_factor |-> 85,
         fast_casual_preference_score |-> 85]
    ELSE IF population > 200000 THEN
        [primary_competitor |-> "chick-fil-a",
         competitor_search_terms |-> base_competitors,
         market_saturation_factor |-> 75,
         fast_casual_preference_score |-> 80]
    ELSE
        [primary_competitor |-> "chick-fil-a",
         competitor_search_terms |-> SubSeq(base_competitors, 3, 7),
         market_saturation_factor |-> 60,
         fast_casual_preference_score |-> 75]

_create_competitor_data_for_population(population) ==
    IF population > 1000000 THEN
        [primary_competitor |-> "chick-fil-a",
         competitor_search_terms |-> base_competitors \o
                <<"chipotle", "panera", "five-guys", "shake-shack">>,
         market_saturation_factor |-> 95,
         fast_casual_preference_score |-> 90]
    ELSE IF population > 500000 THEN
        [primary_competitor |-> "chick-fil-a",
         competitor_search_terms |-> base_competitors \o <<"chipotle", "panera">>,
         market_saturation_factor |-> 85,
         fast_casual_preference_score |-> 85]
    ELSE IF population > 200000 THEN
        [primary_competitor |-> "chick-fil-a",
         competitor_search_terms |-> base_competitors,
         market_saturation_factor |-> 75,
         fast_casual_preference_score |-> 80]
    ELSE
        [primary_competitor |-> "chick-fil-a",
         competitor_search_terms |-> SubSeq(base_competitors, 1, 5),
         market_saturation_factor |-> 60,
         fast_casual_preference_score |-> 75]

\* state_market_data.get(state_code, {}) : (universities, major_employers)
_get_state_market_data(state_code) ==
    CASE state_code = <<"C","A">> ->
            [universities |-> <<"UCLA", "USC", "Stanford", "UC Berkeley">>,
             major_employers |-> <<"Apple", "Google", "Disney", "Tesla">>]
      [] state_code = <<"T","X">> ->
            [universities |-> <<"UT Austin", "Texas A&M", "Rice University">>,
             major_employers |-> <<"ExxonMobil", "AT&T", "Dell",
                                   "Southwest Airlines">>]
      [] state_code = <<"N","Y">> ->
            [universities |-> <<"Columbia", "NYU", "Cornell">>,
             major_employers |-> <<"JPMorgan Chase", "Citigroup", "IBM",
                                   "Verizon">>]
      [] state_code = <<"F","L">> ->
            [universities |-> <<"University of Florida", "Florida State",
                                "Miami">>,
             major_employers |-> <<"Disney", "Publix", "FedEx",
                                   "NextEra Energy">>]
      [] state_code = <<"N","D">> ->
            [universities |-> <<"University of North Dakota",
                                "North Dakota State University">>,
             major_employers |-> <<"Sanford Health", "Altru Health System",
                                   "US Air Force">>]
      [] OTHER -> [universities |-> <<>>, major_employers |-> <<>>]

\* a raw row raises inside _create_city_config_from_data when a field is
\* missing or has a type the string / arithmetic operations reject
RowRaises(row) == row.defect # "none"

\* the rectangle built with the margin on the wrong side of the center
_create_city_config_from_data_Inverted(row) ==
    [city_id |-> CityId(row.city, row.state),
     display_name |-> ConfigDisplayName(row.city, row.state),
     bounds |->
        [min_lat |-> row.lat + _calculate_bounds_size(row.pop),
         max_lat |-> row.lat - _calculate_bounds_size(row.pop),
         min_lon |-> row.lon + _calculate_bounds_size(row.pop),
         max_lon |-> row.lon - _calculate_bounds_size(row.pop),
         center_lat |-> row.lat,
         center_lon |-> row.lon,
         grid_spacing |-> IF row.pop > 500000 THEN 50 ELSE 80],
     demographics |-> _create_demographics_for_population(row.pop),
     market_data |->
        [state_code |-> row.state,
         county_name |-> row.county,
         city_name_variations |->
            <<row.city, row.city \o <<" ">> \o row.state,
              row.city \o <<",", " ">> \o row.state>>,
         rental_api_city_name |-> row.city,
         major_universities |-> _get_state_market_data(row.state).universities,
         major_employers |-> _get_state_market_data(row.state).major_employers],
     competitor_data |-> _create_competitor_data_for_population(row.pop)]

_create_city_config_from_data(row) ==
    [city_id |-> CityId(row.city, row.state),
     display_name |-> ConfigDisplayName(row.city, row.state),
     bounds |->
        [min_lat |-> row.lat - _calculate_bounds_size(row.pop),
         max_lat |-> row.lat + _calculate_bounds_size(row.pop),
         min_lon |-> row.lon - _calculate_bounds_size(row.pop),
         max_lon |-> row.lon + _calculate_bounds_size(row.pop),
         center_lat |-> row.lat,
         center_lon |-> row.lon,
         grid_spacing |-> IF row.pop > 500000 THEN 50 ELSE 80],
     demographics |-> _create_demographics_for_population(row.pop),
     market_data |->
        [state_code |-> row.state,
         county_name |-> row.county,
         city_name_variations |->
            <<row.city, row.city \o <<" ">> \o row.state,
              row.city \o <<",", " ">> \o row.state>>,
         rental_api_city_name |-> row.city,
         major_universities |-> _get_state_market_data(row.state).universities,
         major_employers |-> _get_state_market_data(row.state).major_employers],
     competitor_data |-> _create_competitor_data_for_population(row.pop)]

\* ---- the configs dict: a sequence of (key, config) in insertion order
Keys(cfgs) == {cfgs[i].key : i \in 1..Len(cfgs)}

\* configs[key] = cfg : replace in place, or append
Put_Appends(cfgs, key, cfg) == Append(cfgs, [key |-> key, cfg |-> cfg])

Put(cfgs, key, cfg) ==
    IF key \in Keys(cfgs)
      THEN [i \in 1..Len(cfgs) |->
                IF cfgs[i].key = key THEN [key |-> key, cfg |-> cfg] ELSE cfgs[i]]
      ELSE Append(cfgs, [key |-> key, cfg |-> cfg])

\* ---- persistence: to_dict + yaml.dump, yaml.safe_load + from_dict
\* (variant: the dump keeps only the first value of a range)
DumpRange_Collapsed(r) == [type |-> "list", v |-> <<r.v[1], r.v[1]>>]

\* the tuple representer writes a tuple as a plain YAML list
DumpRange(r) == [r EXCEPT !.type = "list"]

\* config.to_dict() as it reads back from the YAML document
to_dict(cfg) ==
    [cfg EXCEPT
        !.demographics.typical_population_range = DumpRange(@),
        !.demographics.typical_income_range = DumpRange(@),
        !.demographics.typical_age_range = DumpRange(@)]

\* CityConfiguration.from_dict(data): the nested dicts are passed through
from_dict(data) == data

\* yaml.dump writes the keys of a mapping in sorted order (sort_keys is left
\* at its default); str compares by code point
CodePoints ==
    <<" ", ",", "-", ".">> \o UpperCase \o <<"_">> \o LowerCase
Ord(c) == CHOOSE i \in 1..Len(CodePoints) : CodePoints[i] = c

RECURSIVE StrLess(_, _)
StrLess(a, b) ==
    IF b = <<>> THEN FALSE
    ELSE IF a = <<>> THEN TRUE
    ELSE IF Head(a) = Head(b) THEN StrLess(Tail(a), Tail(b))
    ELSE Ord(Head(a)) < Ord(Head(b))

SortedByKey(cfgs) ==
    [i \in 1..Len(cfgs) |->
        CHOOSE e \in {cfgs[j] : j \in 1..Len(cfgs)} :
            Cardinality({k \in Keys(cfgs) : StrLess(k, e.key)}) = i - 1]

\* the document save_configs writes
Serialize(cfgs, cur) ==
    [kind |-> "doc", current_city |-> cur,
     cities |-> [i \in 1..Len(cfgs) |->
                    [key |-> SortedByKey(cfgs)[i].key, ok |-> TRUE,
                     data |-> to_dict(SortedByKey(cfgs)[i].cfg)]]]

\* for city_id, city_data in data['cities'].items(): configs[..] = from_dict(..)
\* stops at the first entry from_dict raises on
RECURSIVE LoadEntries(_, _)
LoadEntries(entries, cfgs) ==
    IF entries = <<>> THEN [configs |-> cfgs, ok |-> TRUE]
    ELSE IF ~Head(entries).ok THEN [configs |-> cfgs, ok |-> FALSE]
    ELSE LoadEntries(Tail(entries),
                     Put(cfgs, Head(entries).key, from_dict(Head(entries).data)))

\* the per-row loop of _generate_usa_city_configs: a row that raises is
\* skipped
RECURSIVE GenerateRows_Aborts(_, _)
GenerateRows_Aborts(rows, cfgs) ==
    IF rows = <<>> \/ RowRaises(Head(rows)) THEN cfgs
    ELSE GenerateRows_Aborts(Tail(rows),
            Put(cfgs, _create_city_config_from_data(Head(rows)).city_id,
                _create_city_config_from_data(Head(rows))))

RECURSIVE GenerateRows(_, _)
GenerateRows(rows, cfgs) ==
    IF rows = <<>> THEN cfgs
    ELSE IF RowRaises(Head(rows)) THEN GenerateRows(Tail(rows), cfgs)
    ELSE GenerateRows(Tail(rows),
            Put(cfgs, _create_city_config_from_data(Head(rows)).city_id,
                _create_city_config_from_data(Head(rows))))

\* if not self.current_city and self.configs: first key
DefaultCurrent(cur, cfgs) ==
    IF cur = <<>> /\ cfgs # <<>> THEN cfgs[1].key ELSE cur

\* what the try block of load_configs leaves behind:
\*   loaded  - the file was read completely, load_configs returns
\*   configs - the entries put into self.configs before it stopped
ReadFile ==
    IF file.kind = "doc"
      THEN [loaded |-> LoadEntries(file.cities, <<>>).ok,
            configs |-> LoadEntries(file.cities, <<>>).configs]
      ELSE [loaded |-> FALSE, configs |-> <<>>]

\* ---- raw city rows (generate_usa_cities.py format, converted)
Chicago == <<"C","h","i","c","a","g","o">>
StLouis == <<"S","t","."," ","L","o","u","i","s">>
GrandForks == <<"G","r","a","n","d"," ","F","o","r","k","s">>
Fargo == <<"F","a","r","g","o">>

Row(city, state, lat, lon, pop, county) ==
    [city |-> city, state |-> state, lat |-> lat, lon |-> lon, pop |-> pop,
     county |-> county, defect |-> "none"]

RowChicago == Row(Chicago, <<"I","L">>, 418781, -876298, 2693976, "Cook")
RowStLouis == Row(StLouis, <<"M","O">>, 386270, -901994, 301578, "St. Louis City")
RowGrandForks == Row(GrandForks, <<"N","D">>, 479253, -970329, 59166, "Grand Forks")
RowFargo == Row(Fargo, <<"N","D">>, 468772, -967898, 125990, "Cass")
\* a row with a missing / non-string field
RowMalformed == [RowStLouis EXCEPT !.defect = "missing_field"]

\* the lists the generation collaborator may supply
CityLists ==
    {<<RowChicago, RowStLouis, RowGrandForks>>,
     <<RowChicago, RowMalformed, RowGrandForks>>,
     \* a source that lists a city twice
     <<RowFargo, RowChicago, RowFargo>>,
     <<>>}

\* ---- states the backing file may be in when a manager is constructed
FileOfKind(kind) == [kind |-> kind, current_city |-> <<>>, cities |-> <<>>]

Entry(row) ==
    [key |-> _create_city_config_from_data(row).city_id, ok |-> TRUE,
     data |-> to_dict(_create_city_config_from_data(row))]
\* an entry whose mapping lacks fields from_dict needs
BadEntry(row) == [Entry(row) EXCEPT !.ok = FALSE]

InitialFiles ==
    {FileOfKind("absent"),
     \* exists but open() raises
     FileOfKind("unreadable"),
     \* yaml.safe_load raises
     FileOfKind("unparsable"),
     \* parses to None
     FileOfKind("empty"),
     \* a mapping without the key 'cities'
     FileOfKind("nocities"),
     \* 'cities' is not a mapping
     FileOfKind("badcities"),
     \* 'cities' is an empty mapping
     FileOfKind("doc"),
     \* written by an earlier run
     [kind |-> "doc", current_city |-> Entry(RowGrandForks).key,
      cities |-> <<Entry(RowChicago), Entry(RowGrandForks)>>],
     \* a good entry followed by one from_dict raises on
     [kind |-> "doc", current_city |-> Entry(RowChicago).key,
      cities |-> <<Entry(RowChicago), BadEntry(RowFargo)>>]}

\* city ids a caller may pass to set_current_city
CityIdInputs ==
    {Entry(RowChicago).key, Entry(RowGrandForks).key, Entry(RowFargo).key,
     <<"n","o","w","h","e","r","e","_","x","x">>}

DashIdle ==
    /\ DashInit
    /\ DATA_LOADER_AVAILABLE = TRUE

InitStore ==
    /\ DashIdle
    /\ file \in InitialFiles
    /\ cities_df \in CityLists
    /\ mgr = "none"
    /\ configs = <<>>
    /\ current_city = <<>>
    /\ ret = "none"
    /\ city_rows = <<>>
    /\ city_configs = <<>>
    /\ query = NoArgs
    /\ found = <<>>
    /\ FallbackIdle

\* ---- operations
\* an operation that is not a query returns no list
NoQuery == query' = NoArgs /\ found' = <<>>

\* with open(config_file, 'w') as f: yaml.dump(data, f): the file after
\* save_configs, given whether it can be opened for writing
Written(cfgs, cur, wok) == IF wok THEN Serialize(cfgs, cur) ELSE file

\* EnhancedCityConfigManager(): __init__ with load_configs, and when the
\* file was not read completely _generate_usa_city_configs with its
\* save_configs; wok: the file can be opened for writing
CityConfigManager(wok) ==
    /\ UNCHANGED dashVars
    /\ UNCHANGED <<cities_df, genVars, fbVars>>
    /\ NoQuery
    /\ IF ReadFile.loaded
         THEN /\ configs' = ReadFile.configs
              /\ current_city' = file.current_city
              /\ mgr' = "ready"
              /\ ret' = "constructed"
              /\ UNCHANGED file
         ELSE LET generated == GenerateRows(cities_df, ReadFile.configs)
                  cur == DefaultCurrent(<<>>, generated)
              IN  /\ file' = Written(generated, cur, wok)
                  /\ IF wok
                       THEN /\ configs' = generated
                            /\ current_city' = cur
                            /\ mgr' = "ready"
                            /\ ret' = "constructed"
                       ELSE \* save_configs raised out of __init__: the
                            \* object was filled but is never returned
                            /\ configs' = generated
                            /\ current_city' = cur
                            /\ mgr' = "none"
                            /\ ret' = "ctor_raised"

\* set_current_city(city_id)
set_current_city(city_id, wok) ==
    /\ mgr = "ready"
    /\ UNCHANGED dashVars
    /\ UNCHANGED <<cities_df, mgr, configs, genVars, fbVars>>
    /\ NoQuery
    /\ IF city_id \in Keys(configs)
         THEN /\ current_city' = city_id
              /\ file' = Written(configs, city_id, wok)
              /\ ret' = IF wok THEN "true" ELSE "set_raised"
         ELSE /\ ret' = "false"
              /\ UNCHANGED <<current_city, file>>

\* save_configs()
save_configs(wok) ==
    /\ mgr = "ready"
    /\ UNCHANGED dashVars
    /\ UNCHANGED <<cities_df, mgr, configs, current_city, genVars, fbVars>>
    /\ NoQuery
    /\ file' = Written(configs, current_city, wok)
    /\ ret' = IF wok THEN "saved" ELSE "save_raised"

\* ---- queries
\* a in b for two strings
Contains(b, a) ==
    \E i \in 0..(Len(b) - Len(a)) : SubSeq(b, i + 1, i + Len(a)) = a

\* query_lower in config.display_name.lower() or
\* query_lower in config.city_id.lower(), without lower-casing the query
Matches_CaseSensitive(cfg, q) ==
    \/ Contains(LowerStr(cfg.display_name), q)
    \/ Contains(LowerStr(cfg.city_id), q)

Matches(cfg, q) ==
    \/ Contains(LowerStr(cfg.display_name), LowerStr(q))
    \/ Contains(LowerStr(cfg.city_id), LowerStr(q))

\* min_pop <= typical_population_range[0] <= max_pop
InPopulationRange_LowerBound(cfg, min_pop, max_pop) ==
    /\ min_pop <= cfg.demographics.typical_population_range.v[1]
    /\ cfg.demographics.typical_population_range.v[1] <= max_pop

\* min_pop <= config.demographics.typical_population_range[1] <= max_pop
InPopulationRange(cfg, min_pop, max_pop) ==
    /\ min_pop <= cfg.demographics.typical_population_range.v[2]
    /\ cfg.demographics.typical_population_range.v[2] <= max_pop

\* [config for config in self.configs.values() if ...]
Values(cfgs) == [i \in 1..Len(cfgs) |-> cfgs[i].cfg]

\* queries a caller may search for
SearchQueries ==
    {<<"c","h","i","c","a","g","o">>, <<"C","H","I","C","A","G","O">>,
     Chicago, <<"n","d">>, <<",", " ">>, <<"_">>, <<"g","o">>, <<>>,
     <<"n","o","w","h","e","r","e">>}

\* ends of the population ranges a caller may ask for
PopulationEnds == {0, 10000, 10001, 15000, 50000, 500000, 10000000}

\* search_cities(query)
search_cities(q) ==
    /\ mgr = "ready"
    /\ query' = [text |-> q]
    /\ found' = SelectSeq(Values(configs), LAMBDA cfg : Matches(cfg, q))
    /\ ret' = "searched"
    /\ UNCHANGED dashVars
    /\ UNCHANGED <<file, cities_df, mgr, configs, current_city, genVars,
                   fbVars>>

\* get_cities_by_population_range(min_pop, max_pop)
get_cities_by_population_range(min_pop, max_pop) ==
    /\ mgr = "ready"
    /\ query' = [min_pop |-> min_pop, max_pop |-> max_pop]
    /\ found' = SelectSeq(Values(configs),
                    LAMBDA cfg : InPopulationRange(cfg, min_pop, max_pop))
    /\ ret' = "listed"
    /\ UNCHANGED dashVars
    /\ UNCHANGED <<file, cities_df, mgr, configs, current_city, genVars,
                   fbVars>>

NextStore ==
    \/ \E wok \in BOOLEAN : CityConfigManager(wok)
    \/ \E city_id \in CityIdInputs, wok \in BOOLEAN : set_current_city(city_id, wok)
    \/ \E wok \in BOOLEAN : save_configs(wok)
    \/ \E q \in SearchQueries : search_cities(q)
    \/ \E min_pop \in PopulationEnds, max_pop \in PopulationEnds :
            get_cities_by_population_range(min_pop, max_pop)

SpecStore == InitStore /\ [][NextStore]_vars

\* ================================ claims about the configuration store ====
\* C9: set_current_city(id) returns true, sets current_city and persists the
\* store exactly when id is in the store; otherwise it returns false and
\* changes neither current_city, nor the collection, nor the file.
C9_SetCurrentExactlyWhenKnown ==
    [][\A city_id \in CityIdInputs, wok \in BOOLEAN :
        set_current_city(city_id, wok) =>
            IF city_id \in Keys(configs)
              THEN /\ ret' = "true"
                   /\ current_city' = city_id
                   /\ file' = Serialize(configs, city_id)
              ELSE /\ ret' = "false"
                   /\ UNCHANGED <<current_city, configs, file>>]_vars

\* C10: constructing the store never raises to the caller, whatever state
\* the backing file is in.
C10_LoadNeverFailsOutward == ret # "ctor_raised"

\* C11: when the backing file is absent, corrupt or empty (a cities mapping
\* without entries included), constructing the store generates a
\* configuration for every usable row of the supplied city list and saves at
\* once: afterwards both the in-memory store and the file hold each of them.
C11_GeneratesAndPersistsWhenNothingStored ==
    [][\A wok \in BOOLEAN :
        (/\ CityConfigManager(wok)
         /\ \/ file.kind # "doc"
            \/ file.cities = <<>>
            \/ \E i \in 1..Len(file.cities) : ~file.cities[i].ok)
        => \A r \in 1..Len(cities_df) :
            ~RowRaises(cities_df[r]) =>
                LET cfg == _create_city_config_from_data(cities_df[r])
                IN  /\ \E i \in 1..Len(configs') :
                        configs'[i] = [key |-> cfg.city_id, cfg |-> cfg]
                    /\ file'.kind = "doc"
                    /\ \E i \in 1..Len(file'.cities) :
                        /\ file'.cities[i].key = cfg.city_id
                        /\ file'.cities[i].data = to_dict(cfg)]_vars

C13_WriteErrorNotFatal == ret \notin {"ctor_raised", "set_raised"}

Pending == [kind |-> "pending"]
RowRaised == [kind |-> "raised"]
Returned(cfg) == [kind |-> "config", cfg |-> cfg]

\* populations around every threshold of the derivation tables
Populations ==
    {-1, 0, 1, 100000, 100001, 200000, 200001, 500000, 500001,
     1000000, 1000001, 2000000, 2000001}
\* coordinates (1/10000 degree) inside, on and beyond the valid ranges
Latitudes == {-900001, -900000, 418781, 900000, 900001}
Longitudes == {-1800001, -1800000, -876298, 1800000, 1800001}

NewYork == <<"N","e","w"," ","Y","o","r","k">>
WinstonSalem == <<"W","i","n","s","t","o","n","-","S","a","l","e","m">>
StPetersburg == <<"S","t","."," ","P","e","t","e","r","s","b","u","r","g">>
\* city names and state codes as the city list spells them, and two names
\* that put the replaced characters next to each other and at the ends
NameInputs ==
    {[city |-> NewYork, state |-> <<"N","Y">>],
     [city |-> StLouis, state |-> <<"M","O">>],
     [city |-> WinstonSalem, state |-> <<"N","C">>],
     [city |-> StPetersburg, state |-> <<"F","L">>],
     [city |-> GrandForks, state |-> <<"N","D">>],
     [city |-> <<" ","A","."," ","-","B","."," ">>, state |-> <<"T","X">>],
     [city |-> <<"-","-","."," ">>, state |-> <<"C","A">>]}

\* the rows handed to the derivation: two cities of every pair of
\* populations, one city at every coordinate pair, every name, a row that
\* raises
GeneratorInputs ==
    {<<[RowChicago EXCEPT !.pop = p], [RowFargo EXCEPT !.pop = q]>> :
        p \in Populations, q \in Populations}
    \cup {<<[RowChicago EXCEPT !.lat = lat, !.lon = lon]>> :
            lat \in Latitudes, lon \in Longitudes}
    \cup {<<Row(n.city, n.state, 407128, -740060, 8336817, "County")>> :
            n \in NameInputs}
    \cup {<<RowMalformed>>}

InitGen ==
    /\ DashIdle
    /\ file = FileOfKind("absent")
    /\ cities_df = <<>>
    /\ mgr = "none"
    /\ configs = <<>>
    /\ current_city = <<>>
    /\ ret = "none"
    /\ query = NoArgs
    /\ found = <<>>
    /\ FallbackIdle
    /\ city_rows \in GeneratorInputs
    /\ city_configs = [i \in 1..Len(city_rows) |-> Pending]

\* city_config = self._create_city_config_from_data(city_series, ..) for the
\* next row of the list, inside the try of the loop
ConfigGenerator ==
    /\ \E i \in 1..Len(city_rows) : city_configs[i] = Pending
    /\ LET i == CHOOSE k \in 1..Len(city_rows) :
                    /\ city_configs[k] = Pending
                    /\ \A j \in 1..(k - 1) : city_configs[j] # Pending
       IN  city_configs' = [city_configs EXCEPT ![i] =
                IF RowRaises(city_rows[i]) THEN RowRaised
                ELSE Returned(_create_city_config_from_data(city_rows[i]))]
    /\ UNCHANGED dashVars
    /\ UNCHANGED <<file, cities_df, mgr, configs, current_city, ret, city_rows,
                   queryVars, fbVars>>

NextGen == ConfigGenerator

SpecGen == InitGen /\ [][NextGen]_vars

\* the rows the derivation returned a configuration for
Derived == {i \in 1..Len(city_rows) : city_configs[i].kind = "config"}

\* C15: the derivation returns no configuration for a record whose
\* population is <= 0, whose latitude is outside [-90, 90] or whose longitude
\* is outside [-180, 180].
C15_InvalidRecordRejected ==
    \A i \in Derived :
        /\ city_rows[i].pop > 0
        /\ city_rows[i].lat >= -900000 /\ city_rows[i].lat <= 900000
        /\ city_rows[i].lon >= -1800000 /\ city_rows[i].lon <= 1800000

\* C16: the half-width of the bounds of a derived configuration is the table
\* value of its population, thresholds tested high to low, a population equal
\* to a threshold falling in the tier below it: 0.30 above 2,000,000, 0.20
\* above 1,000,000, 0.15 above 500,000, 0.10 above 200,000, 0.08 above
\* 100,000, else 0.05; 2,000,000 and 1,000,001 both give 0.20.
C16_BoundsSizeTable ==
    \A i \in Derived :
        LET p == city_rows[i].pop
            b == city_configs[i].cfg.bounds
            w == b.max_lat - b.center_lat
        IN  /\ b.center_lat - b.min_lat = w
            /\ b.max_lon - b.center_lon = w
            /\ b.center_lon - b.min_lon = w
            /\ p > 2000000 => w = 3000
            /\ (p > 1000000 /\ p <= 2000000) => w = 2000
            /\ (p > 500000 /\ p <= 1000000) => w = 1500
            /\ (p > 200000 /\ p <= 500000) => w = 1000
            /\ (p > 100000 /\ p <= 200000) => w = 800
            /\ p <= 100000 => w = 500
            /\ p = 2000000 => w = 2000
            /\ p = 1000001 => w = 2000

\* configurations derived for a population on a threshold and for one just
\* above a threshold
C16_Witness ==
    /\ Len(city_rows) = 2
    /\ Derived = {1, 2}
    /\ city_rows[1].pop = 2000000
    /\ city_rows[2].pop = 1000001

\* C17: the demographics of a derived configuration follow four tiers
\* (> 1,000,000; > 500,000; > 200,000; else): the upper age bound is 45, 50,
\* 55, 60 and the density factor 1.5, 1.2, 1.0, 0.8 from the largest tier to
\* the smallest, so of two cities the one in the smaller tier has the strictly
\* higher age bound and the strictly lower density; every range has
\* low < high and the density factor is positive.
C17_DemographicsTiersMonotone ==
    LET tier(p) == IF p > 1000000 THEN 4 ELSE IF p > 500000 THEN 3
                   ELSE IF p > 200000 THEN 2 ELSE 1
        dem(i) == city_configs[i].cfg.demographics
        age(i) == dem(i).typical_age_range.v[2]
        density(i) == dem(i).population_density_factor
    IN  /\ \A i \in Derived :
            /\ age(i) = <<60, 55, 50, 45>>[tier(city_rows[i].pop)]
            /\ density(i) = <<80, 100, 120, 150>>[tier(city_rows[i].pop)]
            /\ density(i) > 0
            /\ \A f \in {"typical_population_range", "typical_income_range",
                          "typical_age_range"} :
                    /\ Len(dem(i)[f].v) = 2
                    /\ dem(i)[f].v[1] < dem(i)[f].v[2]
        /\ \A i, j \in Derived :
            tier(city_rows[i].pop) < tier(city_rows[j].pop) =>
                /\ age(i) > age(j)
                /\ density(i) < density(j)

\* two cities derived on either side of the 500,000 threshold
C17_Witness ==
    /\ Len(city_rows) = 2
    /\ Derived = {1, 2}
    /\ city_rows[1].pop = 500000
    /\ city_rows[2].pop = 500001
    /\ city_configs[1].cfg.demographics.typical_age_range.v[2] = 55
    /\ city_configs[2].cfg.demographics.typical_age_range.v[2] = 50

\* C18: the competitor data of a derived configuration follow four tiers:
\* the primary competitor is the same in all; saturation is 0.60, 0.75, 0.85,
\* 0.95 and preference 0.75, 0.8, 0.85, 0.9 from the smallest tier up, both
\* within [0, 1], so neither is higher for the less populous of two cities;
\* the search terms are never empty, number 5, 7, 9, 11 (the first five base
\* terms, the base terms, base + 2, base + 4), and the list of the less
\* populous city is a prefix of the other's.
C18_CompetitorTiersMonotone ==
    LET tier(p) == IF p > 1000000 THEN 4 ELSE IF p > 500000 THEN 3
                   ELSE IF p > 200000 THEN 2 ELSE 1
        comp(i) == city_configs[i].cfg.competitor_data
        terms(i) == comp(i).competitor_search_terms
    IN  /\ \A i \in Derived :
            /\ comp(i).market_saturation_factor =
                    <<60, 75, 85, 95>>[tier(city_rows[i].pop)]
            /\ comp(i).fast_casual_preference_score =
                    <<75, 80, 85, 90>>[tier(city_rows[i].pop)]
            /\ comp(i).market_saturation_factor \in 0..100
            /\ comp(i).fast_casual_preference_score \in 0..100
            /\ Len(terms(i)) = <<5, 7, 9, 11>>[tier(city_rows[i].pop)]
            /\ terms(i) # <<>>
            /\ SubSeq(terms(i), 1, 5) =
                    <<"mcdonalds", "kfc", "taco-bell", "burger-king", "subway">>
        /\ \A i, j \in Derived :
            /\ comp(i).primary_competitor = comp(j).primary_competitor
            /\ city_rows[i].pop <= city_rows[j].pop =>
                /\ comp(i).market_saturation_factor
                        <= comp(j).market_saturation_factor
                /\ comp(i).fast_casual_preference_score
                        <= comp(j).fast_casual_preference_score
                /\ Len(terms(i)) <= Len(terms(j))
                /\ terms(i) = SubSeq(terms(j), 1, Len(terms(i)))

\* a city of the smallest tier and one of the largest, both derived
C18_Witness ==
    /\ Len(city_rows) = 2
    /\ Derived = {1, 2}
    /\ city_rows[1].pop = 200000
    /\ city_rows[2].pop = 1000001
    /\ Len(city_configs[1].cfg.competitor_data.competitor_search_terms) = 5
    /\ Len(city_configs[2].cfg.competitor_data.competitor_search_terms) = 11

\* C19: the city_id of a derived configuration is lower case, holds no
\* space, hyphen or period, and ends in "_" and the lower-cased state code;
\* "New York", "NY" gives new_york_ny and "St. Louis", "MO" gives
\* st_louis_mo.
C19_CityIdSlug ==
    \A i \in Derived :
        LET id == city_configs[i].cfg.city_id
            n == Len(id)
        IN  /\ \A k \in 1..n :
                /\ id[k] \notin {" ", "-", "."}
                /\ \A u \in 1..26 : id[k] # UpperCase[u]
            /\ n >= 3
            /\ id[n - 2] = "_"
            /\ \E a, b \in 1..26 :
                /\ city_rows[i].state = <<UpperCase[a], UpperCase[b]>>
                /\ SubSeq(id, n - 1, n) = <<LowerCase[a], LowerCase[b]>>
            /\ (city_rows[i].city = NewYork /\ city_rows[i].state = <<"N","Y">>)
                => id = <<"n","e","w","_","y","o","r","k","_","n","y">>
            /\ (city_rows[i].city = StLouis /\ city_rows[i].state = <<"M","O">>)
                => id = <<"s","t","_","l","o","u","i","s","_","m","o">>

\* the id derived for "St. Louis", "MO"
C19_Witness ==
    /\ Len(city_rows) = 1
    /\ Derived = {1}
    /\ city_rows[1].city = StLouis
    /\ city_configs[1].cfg.city_id[3] = "_"

C21_BoundsInvariant ==
    \A i \in Derived :
        LET b == city_configs[i].cfg.bounds
        IN  /\ b.min_lat < b.max_lat
            /\ b.min_lon < b.max_lon
            /\ b.min_lat <= b.center_lat /\ b.center_lat <= b.max_lat
            /\ b.min_lon <= b.center_lon /\ b.center_lon <= b.max_lon
            /\ b.center_lat = city_rows[i].lat
            /\ b.center_lon = city_rows[i].lon
            /\ b.grid_spacing > 0

\* bounds derived for a center just past a corner of the coordinate range
C21_Witness ==
    /\ Len(city_rows) = 1
    /\ Derived = {1}
    /\ city_rows[1].lat = -900001
    /\ city_rows[1].lon = 1800001
    /\ city_configs[1].cfg.bounds.min_lat = -900001 - 3000

\* C22: search_cities(query) returns exactly the configurations whose
\* display_name or city_id holds the query as a substring when case is
\* ignored, in the order the store holds them; "chicago", "CHICAGO" and
\* "Chicago" each return the one entry chicago_il of a store that has it.
C22_SearchCaseInsensitiveInOrder ==
    [][\A q \in SearchQueries :
        search_cities(q) =>
            LET occurs(name) ==
                    \E off \in 0..(Len(name) - Len(q)) :
                        \A k \in 1..Len(q) : Lower(name[off + k]) = Lower(q[k])
                hits == {j \in 1..Len(configs) :
                            \/ occurs(configs[j].cfg.display_name)
                            \/ occurs(configs[j].cfg.city_id)}
            IN  /\ Len(found') = Cardinality(hits)
                /\ \A j \in hits :
                        found'[Cardinality({h \in hits : h < j}) + 1]
                            = configs[j].cfg
                /\ (/\ LowerStr(q) = LowerStr(Chicago)
                    /\ CityId(Chicago, <<"I", "L">>) \in Keys(configs))
                    => /\ Len(found') = 1
                       /\ found'[1].city_id = CityId(Chicago, <<"I", "L">>)]_vars

\* the upper-case query found the single Chicago entry of a larger store
C22_Witness ==
    /\ ret = "searched"
    /\ query = [text |-> <<"C","H","I","C","A","G","O">>]
    /\ Len(configs) > 1
    /\ Len(found) = 1
    /\ found[1].display_name = ConfigDisplayName(Chicago, <<"I", "L">>)

SeedOf(city) == str_hash[city] % SeedModulus

\* np.random.normal / uniform / randint (.., n_locations), k calls in a row:
\* each returns the next array of the stream of the current seed
Draw(k) == [i \in 1..k |-> [seed |-> np_random.seed, pos |-> np_random.pos + i - 1]]
AfterDraw(k) == [np_random EXCEPT !.pos = @ + k]

\* the np.random calls inside the pd.DataFrame({...}) expression
FrameDraws == IF variant = "fixed" THEN 8 ELSE 5

\* the dictionary the fallback function returns, with the table it built
FallbackResult(city, cols) ==
    [data |-> IF variant = "fixed"
                THEN create_synthetic_city_data(city, DisplayName(city))
                ELSE create_minimal_fallback(city, DisplayName(city)),
     table |-> cols]

InitFallback ==
    /\ DashIdle
    /\ file = FileOfKind("absent")
    /\ cities_df = <<>>
    /\ mgr = "none"
    /\ configs = <<>>
    /\ current_city = <<>>
    /\ ret = "none"
    /\ city_rows = <<>>
    /\ city_configs = <<>>
    /\ query = NoArgs
    /\ found = <<>>
    /\ variant \in {"fixed", "minimal"}
    /\ str_hash \in [Cities -> (0 - MaxHash)..MaxHash]
    /\ np_random = Unseeded
    /\ calls = [c \in Callers |-> NoCall]

FallbackFrame ==
    /\ UNCHANGED dashVars
    /\ UNCHANGED <<file, cities_df, mgr, configs, current_city, ret, genVars,
                   queryVars, variant, str_hash>>

\* a thread enters the fallback function: np.random.seed(hash(city_id) % 2**32)
FallbackSeed(c, city) ==
    /\ calls[c].pc = "idle"
    /\ np_random' = [seed |-> SeedOf(city), pos |-> 0]
    /\ calls' = [calls EXCEPT ![c] = [@ EXCEPT !.pc = "seeded", !.city = city]]
    /\ FallbackFrame

\* lats = np.random.normal(40.7, 0.1, n_locations)
FallbackLats(c) ==
    /\ variant = "fixed"
    /\ calls[c].pc = "seeded"
    /\ calls' = [calls EXCEPT ![c] = [@ EXCEPT !.pc = "lats", !.cols = Draw(1)]]
    /\ np_random' = AfterDraw(1)
    /\ FallbackFrame

\* lons = np.random.normal(-74.0, 0.1, n_locations)
FallbackLons(c) ==
    /\ calls[c].pc = "lats"
    /\ calls' = [calls EXCEPT ![c] = [@ EXCEPT !.pc = "lons",
                                                !.cols = @ \o Draw(1)]]
    /\ np_random' = AfterDraw(1)
    /\ FallbackFrame

\* df = pd.DataFrame({...}) and the return statement
FallbackBuildFrame(c) ==
    /\ calls[c].pc = IF variant = "fixed" THEN "lons" ELSE "seeded"
    /\ calls' = [calls EXCEPT ![c] = [@ EXCEPT
            !.pc = "done",
            !.cols = @ \o Draw(FrameDraws),
            !.result = FallbackResult(calls[c].city,
                                      calls[c].cols \o Draw(FrameDraws))]]
    /\ np_random' = AfterDraw(FrameDraws)
    /\ FallbackFrame

NextFallback ==
    \/ \E c \in Callers, city \in Cities : FallbackSeed(c, city)
    \/ \E c \in Callers : FallbackLats(c)
    \/ \E c \in Callers : FallbackLons(c)
    \/ \E c \in Callers : FallbackBuildFrame(c)

SpecFallback == InitFallback /\ [][NextFallback]_vars

\* the calls that have returned
FallbackDone == {c \in Callers : calls[c].pc = "done"}

\* C24: within one process two fallback calls for the same city id return
\* identical tables, and calls for two different city ids return different
\* tables.
C24_FallbackDeterministicInCityId ==
    \A c, d \in FallbackDone :
        c # d =>
            (calls[c].city = calls[d].city
                <=> calls[c].result.table = calls[d].result.table)

\* C25: every fallback output, of the default variant (100 rows) and of the
\* minimal variant (25 rows), has exactly that many rows and carries
\* synthetic=True in its metrics.
C25_FallbackRowsAndSyntheticFlag ==
    \A c \in FallbackDone :
        /\ calls[c].result.data.rows =
                (IF variant = "fixed" THEN SyntheticRows ELSE MinimalRows)
        /\ "synthetic" \in calls[c].result.data.metrics

\* C29: the table a fallback call returns is the one a call running alone
\* with the same city id returns, whatever other threads are inside the
\* fallback function meanwhile.
C29_FallbackTableIndependentOfOtherWorkers ==
    \A c \in FallbackDone :
        calls[c].result.table =
            [k \in 1..Len(calls[c].result.table) |->
                [seed |-> SeedOf(calls[c].city), pos |-> k - 1]]

\* C30: when the backing file is corrupt only part-way (some entries parse,
\* a later one fails), constructing the manager treats the file as absent as
\* a whole: the store afterwards holds exactly the configurations generated
\* from the city list, and what the following save writes holds exactly
\* those too.
C30_PartlyCorruptFileTreatedAsAbsent ==
    [][( /\ CityConfigManager(TRUE)
         /\ file.kind = "doc"
         /\ ~ReadFile.loaded
         /\ ReadFile.configs # <<>> ) =>
            LET fresh == GenerateRows(cities_df, <<>>)
            IN  /\ configs' = fresh
                /\ file' = Serialize(fresh, DefaultCurrent(<<>>, fresh))]_vars

====
